---- MODULE Spec2Model ----
(***************************************************************************)
(* Sentiment dashboard: the classifier, the keyword extractor, the batch   *)
(* orchestrator (sentiment_analyzer.py), the session result collection     *)
(* that the dashboard handlers (app.py) extend and clear, the summary      *)
(* metrics (visualizations.py) and the exports reading them                *)
(* (export_utils.py).                                                      *)
(*                                                                         *)
(* A text is a sequence of one-character strings.  Polarity and            *)
(* subjectivity are fixed-point numbers in units of 1/PolarityScale.       *)
(***************************************************************************)
EXTENDS Integers, Sequences, FiniteSets

VARIABLES
    text,                 \* argument of the function under call
    pc,                   \* "ready" before the call, the callee's name after it
    ret,                  \* what the call returned
    stopwords_available,  \* NLTK stop-word corpus can be loaded
    tokenizer_available,  \* NLTK tokenizer data can be loaded
    analysis_results,     \* st.session_state.analysis_results, a sequence of rows
    message               \* what the last handler reported: "", "success", "error"

vars == <<text, pc, ret, stopwords_available, tokenizer_available,
          analysis_results, message>>

----------------------------------------------------------------------------
(* Bounds *)

MaxTextLen == 5
MaxK == 2
MaxRows == 2

\* rows of a data frame handed to the summary metrics
MaxFrameRows == 3

----------------------------------------------------------------------------
(* Characters and strings *)

Alphabet == {"A", "b", "c", "o", " ", "!"}

\* str.lower() on one character
LowerChar(ch) == IF ch = "A" THEN "a" ELSE ch

\* str.lower()
Lower(s) == [i \in 1..Len(s) |-> LowerChar(s[i])]

\* the line separator
NL == "\n"

IsSpace(ch) == ch \in {" ", NL}

IsAlphaChar(ch) == ch \in {"A", "a", "b", "c", "o", "n"}

\* str.isalpha(): non-empty and every character alphabetic
IsAlpha(w) == Len(w) > 0 /\ \A i \in 1..Len(w) : IsAlphaChar(w[i])

\* str.strip(): leading and trailing whitespace removed
RECURSIVE LStrip(_)
LStrip(s) == IF s # <<>> /\ IsSpace(Head(s)) THEN LStrip(Tail(s)) ELSE s

RECURSIVE RStrip(_)
RStrip(s) ==
    IF s # <<>> /\ IsSpace(s[Len(s)]) THEN RStrip(SubSeq(s, 1, Len(s) - 1)) ELSE s

\* mutant: the whitespace is kept
Strip_nothing(s) == s

Strip(s) == RStrip(LStrip(s))

\* str.split('\n'): the pieces between the separators, empty ones included
RECURSIVE SplitLinesFrom(_, _, _)
SplitLinesFrom(s, i, cur) ==
    IF i > Len(s) THEN <<cur>>
    ELSE IF s[i] = NL THEN <<cur>> \o SplitLinesFrom(s, i + 1, <<>>)
    ELSE SplitLinesFrom(s, i + 1, Append(cur, s[i]))

\* mutant: blank lines are dropped, the others are kept as typed
StrippedLines_untrimmed(s) ==
    SelectSeq(SplitLinesFrom(s, 1, <<>>), LAMBDA line : Strip(line) # <<>>)

\* [line.strip() for line in s.split('\n') if line.strip()]
StrippedLines(s) ==
    LET lines == SplitLinesFrom(s, 1, <<>>)
        kept == SelectSeq(lines, LAMBDA line : Strip(line) # <<>>)
    IN  [i \in 1..Len(kept) |-> Strip(kept[i])]

\* the texts of length n over the alphabet
RECURSIVE StrOfLen(_)
StrOfLen(n) ==
    IF n = 0 THEN {<<>>}
    ELSE {Append(s, ch) : s \in StrOfLen(n - 1), ch \in Alphabet}

Texts == UNION {StrOfLen(n) : n \in 0..MaxTextLen}

----------------------------------------------------------------------------
(* Outcome of a statement or call: a value, or an exception that propagates *)

Ok(v) == [raised |-> FALSE, value |-> v]

Raise == [raised |-> TRUE, value |-> <<>>]

----------------------------------------------------------------------------
(* Tokenizers *)

Flush(cur) == IF cur = <<>> THEN <<>> ELSE <<cur>>

\* str.split(): the maximal runs of non-whitespace characters
RECURSIVE SplitFrom(_, _, _)
SplitFrom(s, i, cur) ==
    IF i > Len(s) THEN Flush(cur)
    ELSE IF IsSpace(s[i]) THEN Flush(cur) \o SplitFrom(s, i + 1, <<>>)
    ELSE SplitFrom(s, i + 1, Append(cur, s[i]))

Split(s) == SplitFrom(s, 1, <<>>)

\* nltk word_tokenize: whitespace separates, "!" is a token of its own
RECURSIVE WordTokenizeFrom(_, _, _)
WordTokenizeFrom(s, i, cur) ==
    IF i > Len(s) THEN Flush(cur)
    ELSE IF IsSpace(s[i]) THEN Flush(cur) \o WordTokenizeFrom(s, i + 1, <<>>)
    ELSE IF s[i] = "!" THEN Flush(cur) \o <<<<"!">>>> \o WordTokenizeFrom(s, i + 1, <<>>)
    ELSE WordTokenizeFrom(s, i + 1, Append(cur, s[i]))

\* word_tokenize raises LookupError when its data is missing
word_tokenize(s, available) ==
    IF available THEN Ok(WordTokenizeFrom(s, 1, <<>>)) ELSE Raise

\* mutant: the text is tokenized as typed, not lower-cased
word_tokens_as_typed(s, available) ==
    LET r == word_tokenize(s, available)
    IN  IF r.raised THEN Ok(Split(s)) ELSE r

\* try: word_tokenize(text.lower())  except LookupError: text.lower().split()
word_tokens(s, available) ==
    LET r == word_tokenize(Lower(s), available)
    IN  IF r.raised THEN Ok(Split(Lower(s))) ELSE r

----------------------------------------------------------------------------
(* Stop words (those that can be written with the alphabet) *)

NltkStopWords == {<<"a">>, <<"o">>}

BasicStopWords == {<<"a">>}

\* stopwords.words('english') raises LookupError when the corpus is missing
stopwords_words(available) ==
    IF available THEN Ok(NltkStopWords) ELSE Raise

\* mutant: the LookupError of the corpus is not handled
stop_words_unhandled(available) == stopwords_words(available)

\* try: set(stopwords.words('english'))  except LookupError: the built-in set
stop_words(available) ==
    LET r == stopwords_words(available)
    IN  IF r.raised THEN Ok(BasicStopWords) ELSE r

----------------------------------------------------------------------------
(* Keyword extraction *)

\* mutant: the isalpha() test is missing
filtered_words_any_token(tokens, stop) ==
    SelectSeq(tokens, LAMBDA w : w \notin stop)

\* [word for word in word_tokens if word.isalpha() and word not in stop_words]
filtered_words(tokens, stop) ==
    SelectSeq(tokens, LAMBDA w : IsAlpha(w) /\ w \notin stop)

\* number of occurrences of w in ws
RECURSIVE CountOf(_, _)
CountOf(w, ws) ==
    IF ws = <<>> THEN 0
    ELSE (IF Head(ws) = w THEN 1 ELSE 0) + CountOf(w, Tail(ws))

\* the keys of Counter(ws), in insertion (first-encounter) order
RECURSIVE CounterKeys(_, _)
CounterKeys(ws, seen) ==
    IF ws = <<>> THEN seen
    ELSE IF \E i \in 1..Len(seen) : seen[i] = Head(ws)
         THEN CounterKeys(Tail(ws), seen)
         ELSE CounterKeys(Tail(ws), Append(seen, Head(ws)))

\* mutant: a key goes before its equals, so ties come last-encountered first
RECURSIVE InsertByCount_before_equals(_, _, _)
InsertByCount_before_equals(w, sorted, ws) ==
    IF sorted = <<>> THEN <<w>>
    ELSE IF CountOf(w, ws) >= CountOf(Head(sorted), ws)
         THEN <<w>> \o sorted
         ELSE <<Head(sorted)>> \o InsertByCount_before_equals(w, Tail(sorted), ws)

\* insert key w into a sequence sorted by descending count, after its equals
RECURSIVE InsertByCount(_, _, _)
InsertByCount(w, sorted, ws) ==
    IF sorted = <<>> THEN <<w>>
    ELSE IF CountOf(w, ws) > CountOf(Head(sorted), ws)
         THEN <<w>> \o sorted
         ELSE <<Head(sorted)>> \o InsertByCount(w, Tail(sorted), ws)

\* stable sort of the keys by descending count
RECURSIVE SortByCount(_, _, _)
SortByCount(keys, sorted, ws) ==
    IF keys = <<>> THEN sorted
    ELSE SortByCount(Tail(keys), InsertByCount(Head(keys), sorted, ws), ws)

\* mutant: n is used as a slice bound, ranked[:n]
most_common_sliced(ws, n) ==
    LET ranked == SortByCount(CounterKeys(ws, <<>>), <<>>, ws)
    IN  IF n >= Len(ranked) THEN ranked
        ELSE IF n >= 0 THEN SubSeq(ranked, 1, n)
        ELSE SubSeq(ranked, 1, Len(ranked) + n)

\* mutant: every word is returned, whatever n
most_common_untruncated(ws, n) == SortByCount(CounterKeys(ws, <<>>), <<>>, ws)

\* Counter(ws).most_common(n), the words only
most_common(ws, n) ==
    LET ranked == SortByCount(CounterKeys(ws, <<>>), <<>>, ws)
    IN  IF n <= 0 THEN <<>>
        ELSE IF n >= Len(ranked) THEN ranked
        ELSE SubSeq(ranked, 1, n)

\* an exception of either lookup that is not handled ends the call
extract_keywords(s, num_keywords, sw, tk) ==
    LET stop == stop_words(sw)
        toks == word_tokens(s, tk)
    IN  IF stop.raised \/ toks.raised THEN Raise
        ELSE Ok(most_common(filtered_words(toks.value, stop.value), num_keywords))

----------------------------------------------------------------------------
(* Scoring model (TextBlob) and the classifier *)

\* one unit of polarity or subjectivity is 1/PolarityScale
PolarityScale == 1000

\* the lexicon of the scoring model: word -> <<polarity, subjectivity>>
LexiconWords == {<<"b">>, <<"c">>, <<"b", "b">>}

LexiconEntry(w) ==
    IF w = <<"b">> THEN <<500, 600>>
    ELSE IF w = <<"c">> THEN <<0 - 1000, 1000>>
    ELSE <<4, 100>>

RECURSIVE SumOf(_, _)
SumOf(ws, k) ==
    IF ws = <<>> THEN 0 ELSE LexiconEntry(Head(ws))[k] + SumOf(Tail(ws), k)

Abs(x) == IF x < 0 THEN 0 - x ELSE x

\* the mean of n numbers of sum total, rounded toward zero
Mean(total, n) ==
    IF total < 0 THEN 0 - ((0 - total) \div n) ELSE total \div n

\* a value that is a str: a sequence of characters
NaN == <<"NaN">>

IsStr(v) == v # NaN

\* TextBlob(text).sentiment: the mean score of the words the lexicon knows,
\* 0.0 when it knows none; TextBlob(text) raises TypeError unless text is a str
\* mutant: the score drifts with the number of rows analysed so far
TextBlobSentiment_with_history(v) ==
    IF ~IsStr(v) THEN Raise
    ELSE Ok([polarity |-> Len(analysis_results), subjectivity |-> 0])

TextBlobSentiment(v) ==
    IF ~IsStr(v) THEN Raise
    ELSE LET known == SelectSeq(WordTokenizeFrom(Lower(v), 1, <<>>),
                                LAMBDA w : w \in LexiconWords)
         IN  IF known = <<>> THEN Ok([polarity |-> 0, subjectivity |-> 0])
             ELSE Ok([polarity |-> Mean(SumOf(known, 1), Len(known)),
                      subjectivity |-> Mean(SumOf(known, 2), Len(known))])

\* mutant: polarities within a hundredth of zero are Neutral
sentiment_of_with_band(polarity) ==
    IF polarity >= 10 THEN "Positive"
    ELSE IF polarity <= 0 - 10 THEN "Negative"
    ELSE "Neutral"

\* if polarity > 0 ... elif polarity < 0 ... else ...
sentiment_of(polarity) ==
    IF polarity > 0 THEN "Positive"
    ELSE IF polarity < 0 THEN "Negative"
    ELSE "Neutral"

\* mutant: abs() is missing
confidence_of_signed(polarity) == polarity

\* confidence = abs(polarity)
confidence_of(polarity) == Abs(polarity)

analyze_sentiment_textblob(v) ==
    LET analysis == TextBlobSentiment(v)
    IN  IF analysis.raised THEN Raise
        ELSE Ok([sentiment |-> sentiment_of(analysis.value.polarity),
                 confidence |-> confidence_of(analysis.value.polarity),
                 polarity |-> analysis.value.polarity,
                 subjectivity |-> analysis.value.subjectivity])

----------------------------------------------------------------------------
(* Function calls on every text *)

KValues == (0 - 1)..MaxK

FnInit ==
    /\ text \in Texts
    /\ pc = "ready"
    /\ ret = <<>>
    /\ stopwords_available \in BOOLEAN
    /\ tokenizer_available \in BOOLEAN
    /\ analysis_results = <<>>
    /\ message = ""

CallExtractKeywords ==
    /\ pc = "ready"
    /\ \E k \in KValues :
         /\ ret' = [num_keywords |-> k,
                    result |-> extract_keywords(text, k, stopwords_available,
                                                tokenizer_available)]
         /\ pc' = "extract_keywords"
    /\ UNCHANGED <<text, stopwords_available, tokenizer_available,
                   analysis_results, message>>

CallAnalyzeSentiment ==
    /\ pc = "ready"
    /\ ret' = [result |-> analyze_sentiment_textblob(text)]
    /\ pc' = "analyze_sentiment_textblob"
    /\ UNCHANGED <<text, stopwords_available, tokenizer_available,
                   analysis_results, message>>

FnNext == CallAnalyzeSentiment \/ CallExtractKeywords

FnSpec == FnInit /\ [][FnNext]_vars

----------------------------------------------------------------------------
(* Explanation and batch orchestrator *)

\* f"{polarity:.2f}": the sign and the hundredths, nearest
Format2f(polarity) ==
    [negative |-> polarity < 0, hundredths |-> (Abs(polarity) + 5) \div 10]

\* mutant: the template is chosen by the sign of the polarity
get_sentiment_explanation_by_polarity(t, sentiment, polarity) ==
    [template |-> sentiment_of(polarity), text |-> t, score |-> Format2f(polarity)]

\* the template is chosen by the label; the sentence holds the text and the score
get_sentiment_explanation(t, sentiment, polarity) ==
    [template |-> IF sentiment = "Positive" THEN "Positive"
                  ELSE IF sentiment = "Negative" THEN "Negative"
                  ELSE "Neutral",
     text |-> t,
     score |-> Format2f(polarity)]

\* the labels a caller may pass: the three of the classifier, and others
ExplainLabels == {"Positive", "Negative", "Neutral", "Mixed", ""}

\* the texts whose explanation is asked for
ExplainTexts == {<<>>, <<"b">>, <<"c">>, <<"o", "!">>, <<"b", " ", "c">>}

ExplainInit ==
    /\ text \in ExplainTexts
    /\ pc = "ready"
    /\ ret = <<>>
    /\ stopwords_available \in BOOLEAN
    /\ tokenizer_available \in BOOLEAN
    /\ analysis_results = <<>>
    /\ message = ""

\* a call with any label and any polarity in [-1, 1], agreeing or not
CallExplanation ==
    /\ pc = "ready"
    /\ \E sentiment \in ExplainLabels,
          polarity \in (0 - PolarityScale)..PolarityScale :
         /\ ret' = [sentiment |-> sentiment, polarity |-> polarity,
                    result |-> get_sentiment_explanation(text, sentiment,
                                                         polarity)]
         /\ pc' = "get_sentiment_explanation"
    /\ UNCHANGED <<text, stopwords_available, tokenizer_available,
                   analysis_results, message>>

ExplainNext == CallExplanation

ExplainSpec == ExplainInit /\ [][ExplainNext]_vars

\* extract_keywords(text, num_keywords=5)
DefaultNumKeywords == 5

\* dict.get(key, default)
Get(d, key, default) == IF key \in DOMAIN d THEN d[key] ELSE default

\* one pass of the loop body of batch_analyze_sentiment
BatchRow(text_item) ==
    LET a == analyze_sentiment_textblob(text_item.text)
        k == extract_keywords(text_item.text, DefaultNumKeywords,
                              stopwords_available, tokenizer_available)
    IN  IF a.raised \/ k.raised THEN Raise
        ELSE Ok([text |-> text_item.text,
                 sentiment |-> a.value.sentiment,
                 confidence |-> a.value.confidence,
                 polarity |-> a.value.polarity,
                 subjectivity |-> a.value.subjectivity,
                 keywords |-> k.value,
                 source |-> Get(text_item, "source", "N/A"),
                 date |-> Get(text_item, "date", "N/A")])

\* mutant: each result is put in front of the earlier ones
RECURSIVE BatchLoop_prepend(_, _)
BatchLoop_prepend(texts, results) ==
    IF texts = <<>> THEN Ok(results)
    ELSE LET r == BatchRow(Head(texts))
         IN  IF r.raised THEN Raise
             ELSE BatchLoop_prepend(Tail(texts), <<r.value>> \o results)

\* for text_item in texts: results.append(...); an exception ends the call
RECURSIVE BatchLoop(_, _)
BatchLoop(texts, results) ==
    IF texts = <<>> THEN Ok(results)
    ELSE LET r == BatchRow(Head(texts))
         IN  IF r.raised THEN Raise
             ELSE BatchLoop(Tail(texts), Append(results, r.value))

batch_analyze_sentiment(texts) == BatchLoop(texts, <<>>)

\* the same call when the scoring of record fail_at raises (0: of no record):
\* the exception ends the call, and the results list built so far, kept here
\* under value, is lost with it
BatchFailingAt(texts, fail_at) ==
    IF fail_at \in DOMAIN texts
    THEN [raised |-> TRUE,
          value |-> BatchLoop(SubSeq(texts, 1, fail_at - 1), <<>>).value]
    ELSE batch_analyze_sentiment(texts)

\* mutant: the results are stored without the explanation column
AddExplanations_skipped(results) == results

\* results['explanation'] = results.apply(lambda row: ..., axis=1)
AddExplanations(results) ==
    [i \in 1..Len(results) |->
        [text |-> results[i].text,
         sentiment |-> results[i].sentiment,
         confidence |-> results[i].confidence,
         polarity |-> results[i].polarity,
         subjectivity |-> results[i].subjectivity,
         keywords |-> results[i].keywords,
         source |-> results[i].source,
         date |-> results[i].date,
         explanation |-> get_sentiment_explanation(results[i].text,
                             results[i].sentiment, results[i].polarity)]]

\* mutant: the new rows are put in front of the collection
Concat_in_front(collection, results) == results \o collection

\* pd.concat([st.session_state.analysis_results, results], ignore_index=True)
Concat(collection, results) == collection \o results

----------------------------------------------------------------------------
(* What the user types, picks and uploads *)

\* str(datetime.now().date()), and another day picked in the date input
Today == "2025-01-02"

Dates == {Today, "2024-12-31"}

\* the source box: left empty, or filled in
SourceInputs == {"", "Survey"}

RECURSIVE JoinWords(_)
JoinWords(ws) ==
    IF ws = <<>> THEN <<>>
    ELSE IF Len(ws) = 1 THEN Head(ws)
    ELSE Head(ws) \o <<" ">> \o JoinWords(Tail(ws))

\* a text of eleven different words: more than the slider can ask for
LongText ==
    JoinWords(<< <<"b">>, <<"c">>, <<"b", "b">>, <<"b", "c">>, <<"c", "b">>,
                 <<"c", "c">>, <<"b", "b", "b">>, <<"b", "b", "c">>,
                 <<"b", "c", "b">>, <<"b", "c", "c">>, <<"c", "b", "b">> >>)

\* the single-text box
TextInputs == {<<>>, <<" ">>, <<"b">>, <<"c">>, <<"o", "!">>}

\* the single-text box with more words in it than keywords are asked for
LongTextInputs == {LongText}

\* the batch box with such a line
LongBatchInputs == {LongText \o <<NL>>}

\* the batch box, one text per line
BatchInputs ==
    {<<>>,
     <<" ", NL, " ">>,
     <<"c">>,
     <<"b", NL, "b">>,
     <<" ", "b", NL, NL, "c", " ", "o", NL>>}

\* f'Batch Input {i+1}' for i + 1 = n
BatchInputLabel(n) ==
    <<"Batch Input 1", "Batch Input 2", "Batch Input 3", "Batch Input 4">>[n]

\* the slider "Number of keywords to extract": st.slider(..., 3, 10, 5)
SliderMin == 3

SliderMax == 10

\* the slider left at its default, or moved to an end
SliderChoices == {SliderMin, DefaultNumKeywords, SliderMax}

\* an empty CSV cell, read as the float NaN: in a text column, in a label column
NaNLabel == "NaN"

\* mutant: the value is passed on as it is
Str_as_is(v) == v

\* str(value)
Str(v) == IF v = NaN THEN <<"n", "a", "n">> ELSE v

StrLabel(v) == IF v = NaNLabel THEN "nan" ELSE v

\* an uploaded file: its name, whether reading it succeeds, and what it holds
\* (columns and rows of a CSV, content of a text file)
CsvFile(name, reads, columns, rows) ==
    [name |-> name, reads |-> reads, columns |-> columns, rows |-> rows,
     content |-> <<>>]

TxtFile(name, reads, content) ==
    [name |-> name, reads |-> reads, columns |-> {}, rows |-> <<>>,
     content |-> content]

SampleFiles ==
    {CsvFile("a.csv", TRUE, {"text"}, <<[text |-> <<"b">>], [text |-> NaN]>>),
     CsvFile("s.csv", TRUE, {"text", "source", "date"},
             <<[text |-> <<"c">>, source |-> "Survey", date |-> "2024-12-31"]>>),
     CsvFile("e.csv", TRUE, {"text", "source"}, <<>>),
     CsvFile("x.csv", TRUE, {"source"}, <<[source |-> "Survey"]>>),
     CsvFile("bad.csv", FALSE, {}, <<>>),
     TxtFile("n.txt", TRUE, <<"b", NL, " ">>),
     TxtFile("d.dat", TRUE, <<"c">>)}

\* files with the long text in them
LongFiles ==
    {CsvFile("l.csv", TRUE, {"text"}, <<[text |-> LongText]>>),
     TxtFile("l.txt", TRUE, LongText)}

\* name.endswith(suffix)
EndsWith(name, suffix) ==
    \/ suffix = ".csv" /\ name \in {"a.csv", "s.csv", "e.csv", "x.csv", "bad.csv",
                                    "l.csv"}
    \/ suffix = ".txt" /\ name \in {"n.txt", "l.txt"}

\* what the multi-file uploader holds: one file, or two different files
UploadLists ==
    {<<f>> : f \in SampleFiles} \cup
    {<<p[1], p[2]>> : p \in {q \in SampleFiles \X SampleFiles : q[1] # q[2]}}

----------------------------------------------------------------------------
(* Data frames of uploaded files *)

EmptyFrame == [columns |-> {}, rows |-> <<>>]

\* DataFrame.empty
IsEmptyFrame(df) == df.columns = {} \/ df.rows = <<>>

\* df['file_source'] = name
WithFileSource(df, name) ==
    [columns |-> df.columns \cup {"file_source"},
     rows |-> [i \in 1..Len(df.rows) |->
                  [c \in df.columns \cup {"file_source"} |->
                      IF c = "file_source" THEN name ELSE df.rows[i][c]]]]

\* the frame one uploaded file contributes; Raise when reading it fails
FrameOfFile(f) ==
    IF EndsWith(f.name, ".csv") THEN
        IF ~f.reads THEN Raise
        ELSE IF "text" \in f.columns
             THEN Ok(<<WithFileSource([columns |-> f.columns, rows |-> f.rows],
                                      f.name)>>)
             ELSE Ok(<<>>)
    ELSE IF EndsWith(f.name, ".txt") THEN
        IF ~f.reads THEN Raise
        ELSE LET lines == StrippedLines(f.content)
             IN  Ok(<<WithFileSource(
                        [columns |-> {"text"},
                         rows |-> [i \in 1..Len(lines) |-> [text |-> lines[i]]]],
                        f.name)>>)
    ELSE Ok(<<>>)

\* mutant: the first file that cannot be read ends the loop
RECURSIVE AllResults_until_failure(_)
AllResults_until_failure(files) ==
    IF files = <<>> THEN <<>>
    ELSE LET r == FrameOfFile(Head(files))
         IN  IF r.raised THEN <<>>
             ELSE r.value \o AllResults_until_failure(Tail(files))

\* for uploaded_file in uploaded_files: try ... except: print(...)
RECURSIVE AllResults(_)
AllResults(files) ==
    IF files = <<>> THEN <<>>
    ELSE LET r == FrameOfFile(Head(files))
         IN  (IF r.raised THEN <<>> ELSE r.value) \o AllResults(Tail(files))

\* a missing value of column c: NaN
Missing(c) == IF c = "text" THEN NaN ELSE NaNLabel

RECURSIVE ConcatRows(_, _)
ConcatRows(frames, columns) ==
    IF frames = <<>> THEN <<>>
    ELSE LET df == Head(frames)
         IN  [i \in 1..Len(df.rows) |->
                 [c \in columns |->
                     IF c \in df.columns THEN df.rows[i][c] ELSE Missing(c)]]
             \o ConcatRows(Tail(frames), columns)

\* pd.concat(all_results, ignore_index=True): the union of the columns, NaN
\* where a frame lacks one
ConcatFrames(frames) ==
    LET columns == UNION {frames[i].columns : i \in DOMAIN frames}
    IN  [columns |-> columns, rows |-> ConcatRows(frames, columns)]

batch_process_files(uploaded_files) ==
    LET all_results == AllResults(uploaded_files)
    IN  IF all_results # <<>> THEN ConcatFrames(all_results) ELSE EmptyFrame

----------------------------------------------------------------------------
(* The dashboard handlers *)

\* no call of batch_analyze_sentiment by the last handler
NoCall == [called |-> FALSE, frame |-> <<>>, records |-> <<>>, result |-> Raise]

\* the same, with the values of the widgets the handler used kept in frame
Inputs(frame) ==
    [called |-> FALSE, frame |-> frame, records |-> <<>>, result |-> Raise]

\* frame: the rows the handler read (an upload) or the values of its widgets
BatchCall(frame, records) ==
    [called |-> TRUE, frame |-> frame, records |-> records,
     result |-> batch_analyze_sentiment(records)]

\* the call when the scoring of record fail_at raises
FailingBatchCall(frame, records, fail_at) ==
    [called |-> TRUE, frame |-> frame, records |-> records,
     result |-> BatchFailingAt(records, fail_at)]

\* the scoring library raises for no record
NoFault == {0}

\* the scoring library raises for no record, or for one
Faults == 0..MaxRows

Init ==
    /\ text = <<>>
    /\ pc = "main"
    /\ ret = NoCall
    /\ stopwords_available \in BOOLEAN
    /\ tokenizer_available \in BOOLEAN
    /\ analysis_results = <<>>
    /\ message = ""

\* the row single_text_analysis builds
SingleRow(text_input, source, date, num_keywords) ==
    LET a == analyze_sentiment_textblob(text_input).value
        keywords == extract_keywords(text_input, num_keywords,
                        stopwords_available, tokenizer_available).value
    IN  [text |-> text_input,
         sentiment |-> a.sentiment,
         confidence |-> a.confidence,
         polarity |-> a.polarity,
         subjectivity |-> a.subjectivity,
         keywords |-> keywords,
         source |-> IF source # "" THEN source ELSE "Manual Input",
         date |-> date,
         explanation |-> get_sentiment_explanation(text_input, a.sentiment,
                                                   a.polarity)]

\* button "Analyze Text", with the text box holding one of inputs
SingleTextAnalysis(inputs) ==
    /\ Len(analysis_results) < MaxRows
    /\ \E text_input \in inputs, source \in SourceInputs, date \in Dates,
          num_keywords \in SliderChoices :
        /\ IF Strip(text_input) # <<>>
           THEN /\ analysis_results' =
                       Concat(analysis_results,
                              <<SingleRow(text_input, source, date, num_keywords)>>)
                /\ message' = "success"
                /\ ret' = Inputs(<<[text |-> text_input,
                                    num_keywords |-> num_keywords]>>)
           ELSE /\ message' = "error"
                /\ ret' = Inputs(<<[text |-> text_input]>>)
                /\ UNCHANGED analysis_results
        /\ pc' = "single_text_analysis"
        /\ UNCHANGED <<text, stopwords_available, tokenizer_available>>

single_text_analysis == SingleTextAnalysis(TextInputs)

\* text_data of batch_text_analysis
BatchTextData(texts, default_source, default_date) ==
    [i \in 1..Len(texts) |->
        [text |-> texts[i],
         source |-> IF default_source # "" THEN default_source
                    ELSE BatchInputLabel(i),
         date |-> default_date]]

\* mutant: the rows analysed before an exception are stored all the same
StoreResults_as_they_come(call) ==
    /\ ret' = call
    /\ analysis_results' =
           Concat(analysis_results, AddExplanations(call.result.value))
    /\ message' = IF call.result.raised THEN "error" ELSE "success"

\* what a handler does with the outcome of batch_analyze_sentiment: rows are
\* stored after the whole batch is analysed; an exception leaves them alone
StoreResults(call) ==
    /\ ret' = call
    /\ IF call.result.raised
       THEN /\ message' = "error"
            /\ UNCHANGED analysis_results
       ELSE /\ analysis_results' =
                   Concat(analysis_results, AddExplanations(call.result.value))
            /\ message' = "success"

\* button "Analyze Batch", with the batch box holding one of inputs
BatchTextAnalysis(inputs, faults) ==
    /\ Len(analysis_results) < MaxRows
    /\ \E batch_text \in inputs, default_source \in SourceInputs,
          default_date \in Dates :
        /\ IF Strip(batch_text) # <<>>
           THEN LET texts == StrippedLines(batch_text)
                    text_data == BatchTextData(texts, default_source,
                                               default_date)
                    widgets == <<[text |-> batch_text,
                                  source |-> default_source,
                                  date |-> default_date]>>
                IN  /\ Len(analysis_results) + Len(text_data) <= MaxRows
                    /\ \E fail_at \in faults \cap (0..Len(text_data)) :
                          StoreResults(FailingBatchCall(widgets, text_data,
                                                        fail_at))
           ELSE /\ message' = "error"
                /\ ret' = Inputs(<<[text |-> batch_text]>>)
                /\ UNCHANGED analysis_results
        /\ pc' = "batch_text_analysis"
        /\ UNCHANGED <<text, stopwords_available, tokenizer_available>>

batch_text_analysis == BatchTextAnalysis(BatchInputs, NoFault)

\* text_data of the multi-file upload
FilesTextData(df) ==
    [i \in 1..Len(df.rows) |->
        [text |-> Str(df.rows[i].text),
         source |-> StrLabel(Get(df.rows[i], "source",
                                 Get(df.rows[i], "file_source", "File Upload"))),
         date |-> StrLabel(Get(df.rows[i], "date", Today))]]

\* button "Analyze All Files", with the uploader holding one of lists
FileUploadAnalysis(lists, faults) ==
    /\ Len(analysis_results) < MaxRows
    /\ \E uploaded_files \in lists :
        /\ uploaded_files # <<>>
        /\ LET combined_df == batch_process_files(uploaded_files)
           IN  IF IsEmptyFrame(combined_df)
               THEN /\ message' = "error"
                    /\ ret' = NoCall
                    /\ UNCHANGED analysis_results
               ELSE /\ Len(analysis_results) + Len(combined_df.rows) <= MaxRows
                    /\ \E fail_at \in faults \cap (0..Len(combined_df.rows)) :
                          StoreResults(FailingBatchCall(combined_df.rows,
                                           FilesTextData(combined_df), fail_at))
        /\ pc' = "file_upload_analysis"
        /\ UNCHANGED <<text, stopwords_available, tokenizer_available>>

file_upload_analysis == FileUploadAnalysis(UploadLists, NoFault)

\* text_data of the single CSV upload
SingleFileTextData(df, source_col, date_col) ==
    [i \in 1..Len(df.rows) |->
        [text |-> Str(df.rows[i].text),
         source |-> IF source_col # "None" THEN StrLabel(df.rows[i][source_col])
                    ELSE "File Upload",
         date |-> IF date_col # "None" THEN StrLabel(df.rows[i][date_col])
                  ELSE Today]]

\* one of files chosen as the single CSV file, and the button "Analyze Single
\* File"
SingleFileUpload(files, faults) ==
    /\ Len(analysis_results) < MaxRows
    /\ \E uploaded_file \in files :
        /\ IF ~uploaded_file.reads \/ "text" \notin uploaded_file.columns
           THEN /\ message' = "error"
                /\ ret' = NoCall
                /\ UNCHANGED analysis_results
           ELSE \E source_col \in {"None"} \cup (uploaded_file.columns \ {"text"}),
                   date_col \in {"None"} \cup (uploaded_file.columns \ {"text"}) :
                    /\ Len(analysis_results) + Len(uploaded_file.rows) <= MaxRows
                    /\ IF uploaded_file.rows = <<>>
                       THEN \* the explanation column of a frame without rows:
                            \* set or refused, by the version of the library
                            /\ message' \in {"success", "error"}
                            /\ ret' = BatchCall(<<>>, <<>>)
                            /\ UNCHANGED analysis_results
                       ELSE \E fail_at \in
                                  faults \cap (0..Len(uploaded_file.rows)) :
                                StoreResults(FailingBatchCall(uploaded_file.rows,
                                    SingleFileTextData(uploaded_file, source_col,
                                                       date_col), fail_at))
        /\ pc' = "single_file_upload"
        /\ UNCHANGED <<text, stopwords_available, tokenizer_available>>

single_file_upload == SingleFileUpload(SampleFiles, NoFault)

\* mutant: the button removes the newest row only
clear_newest_row ==
    /\ analysis_results # <<>>
    /\ analysis_results' = SubSeq(analysis_results, 1, Len(analysis_results) - 1)
    /\ pc' = "clear_all_results"
    /\ ret' = NoCall
    /\ message' = ""
    /\ UNCHANGED <<text, stopwords_available, tokenizer_available>>

\* button "Clear All Results", shown with the results
clear_all_results ==
    /\ analysis_results # <<>>
    /\ analysis_results' = <<>>
    /\ pc' = "clear_all_results"
    /\ ret' = NoCall
    /\ message' = ""
    /\ UNCHANGED <<text, stopwords_available, tokenizer_available>>

Next ==
    \/ single_text_analysis
    \/ batch_text_analysis
    \/ file_upload_analysis
    \/ single_file_upload
    \/ clear_all_results

Spec == Init /\ [][Next]_vars

\* the same dashboard with long texts typed in
LongTextNext ==
    \/ SingleTextAnalysis(LongTextInputs)
    \/ BatchTextAnalysis(LongBatchInputs, NoFault)
    \/ FileUploadAnalysis({<<f>> : f \in LongFiles}, NoFault)
    \/ SingleFileUpload(LongFiles, NoFault)
    \/ clear_all_results

LongTextSpec == Init /\ [][LongTextNext]_vars

\* batches of one and of two records
FaultBatchInputs == {<<"c">>, <<"b", NL, "c">>}

FaultFiles == {f \in SampleFiles : f.name \in {"a.csv", "s.csv"}}

\* the same dashboard with a scoring library that may raise for a record
FaultNext ==
    \/ SingleTextAnalysis({<<"b">>})
    \/ BatchTextAnalysis(FaultBatchInputs, Faults)
    \/ FileUploadAnalysis({<<f>> : f \in FaultFiles}, Faults)
    \/ SingleFileUpload(FaultFiles, Faults)
    \/ clear_all_results

FaultSpec == Init /\ [][FaultNext]_vars

\* the dashboard with files in the multi-file uploader, held in text
UploadInit ==
    /\ text \in UploadLists
    /\ pc = "main"
    /\ ret = NoCall
    /\ stopwords_available \in BOOLEAN
    /\ tokenizer_available \in BOOLEAN
    /\ analysis_results = <<>>
    /\ message = ""

\* combined_df = batch_process_files(uploaded_files), on its own
CallBatchProcessFiles ==
    /\ ret' = [result |-> batch_process_files(text)]
    /\ pc' = "batch_process_files"
    /\ UNCHANGED <<text, stopwords_available, tokenizer_available,
                   analysis_results, message>>

UploadNext ==
    \/ CallBatchProcessFiles
    \/ FileUploadAnalysis({text}, NoFault)
    \/ SingleTextAnalysis({<<"b">>})
    \/ clear_all_results

UploadSpec == UploadInit /\ [][UploadNext]_vars

----------------------------------------------------------------------------
(* Summary metrics and the exports that read them *)

\* the keys of the dict create_sentiment_metrics_summary returns for rows
MetricKeys ==
    {"total_texts", "positive_count", "negative_count", "neutral_count",
     "positive_pct", "negative_pct", "neutral_pct",
     "avg_confidence", "avg_polarity", "avg_subjectivity"}

\* a dict: its keys, and the value under each key
Dict(keys, values) == [keys |-> keys, values |-> values]

\* {}
EmptyDict == Dict({}, <<>>)

\* df['sentiment'].value_counts().get(label, 0)
ValueCount(df, label) == Cardinality({i \in DOMAIN df : df[i].sentiment = label})

\* A float (IEEE 754 binary64) that is not negative: its significand of 53
\* bits as five digits to the base 2^13, the first of them 1 and of weight
\* 2^exp; no digits for 0.0
Base == 8192

Float(mant, exp) == [mant |-> mant, exp |-> exp]

FloatZero == Float(<<>>, 0)

\* digits that may exceed the base, each carried over into the one before it;
\* the first digit keeps what is carried into it
RECURSIVE Carried(_)
Carried(digits) ==
    IF Len(digits) <= 1 THEN digits
    ELSE LET n == Len(digits)
             front == SubSeq(digits, 1, n - 2)
                          \o <<digits[n - 1] + digits[n] \div Base>>
         IN  Carried(front) \o <<digits[n] % Base>>

\* the float nearest to a number of which the significand is cut off behind
\* its 53rd bit: half says that the next bit is 1, more that a later one is;
\* of two floats as near, the one with an even significand
RoundToFloat(digits, exp, half, more) ==
    LET up == half /\ (more \/ digits[5] % 2 = 1)
        next == Carried([digits EXCEPT ![5] = @ + 1])
    IN  IF ~up THEN Float(digits, exp)
        ELSE IF next[1] = 2 THEN Float(<<1, 0, 0, 0, 0>>, exp + 1)
             ELSE Float(next, exp)

\* n digits of the quotient r / b behind the point (r < b), and the remainder
RECURSIVE DivDigits(_, _, _)
DivDigits(r, b, n) ==
    IF n = 0 THEN <<r>>
    ELSE <<(r * Base) \div b>> \o DivDigits((r * Base) % b, b, n - 1)

\* num / den for den <= num < 2 * den
FloatDivScaled(num, den, exp) ==
    LET q == DivDigits(num - den, den, 4)
        rest == 2 * q[5]
    IN  RoundToFloat(<<1>> \o SubSeq(q, 1, 4), exp,
                     rest >= den, rest % den # 0)

\* a / b for two counts, b > 0: the float nearest to the quotient
FloatDiv(a, b) ==
    IF a = 0 THEN FloatZero
    ELSE IF a >= b
         THEN LET t == CHOOSE t \in 0..12 : b * 2^t <= a /\ a < b * 2^(t + 1)
              IN  FloatDivScaled(a, b * 2^t, t)
         ELSE LET u == CHOOSE u \in 1..12 : b <= a * 2^u /\ a * 2^u < 2 * b
              IN  FloatDivScaled(a * 2^u, b, 0 - u)

\* x * k for a natural k from 1 to below 2^13: the float nearest to the
\* product
FloatTimes(x, k) ==
    IF x.mant = <<>> THEN FloatZero
    ELSE LET product == Carried([i \in 1..5 |-> x.mant[i] * k])
             s == CHOOSE s \in 0..13 :
                      2^s <= product[1] /\ product[1] < 2^(s + 1)
             shifted == [i \in 1..5 |->
                            IF i = 1 THEN 1
                            ELSE (product[i - 1] % 2^s) * (Base \div 2^s)
                                     + product[i] \div 2^s]
             lost == product[5] % 2^s
         IN  IF s = 0 THEN Float(product, x.exp)
             ELSE RoundToFloat(shifted, x.exp + s, lost >= 2^(s - 1),
                               lost % 2^(s - 1) # 0)

\* mutant: the share is not scaled to a percentage
Pct_unscaled(count, total_texts) ==
    IF total_texts > 0 THEN FloatDiv(count, total_texts) ELSE FloatZero

\* (count / total_texts) * 100 if total_texts > 0 else 0
Pct(count, total_texts) ==
    IF total_texts > 0 THEN FloatTimes(FloatDiv(count, total_texts), 100)
    ELSE FloatZero

RECURSIVE ColumnSum(_, _)
ColumnSum(df, column) ==
    IF df = <<>> THEN 0 ELSE Head(df)[column] + ColumnSum(Tail(df), column)

\* df[column].mean() if column in df.columns else 0
ColumnMean(df, column) ==
    IF \A i \in DOMAIN df : column \in DOMAIN df[i]
    THEN Mean(ColumnSum(df, column), Len(df))
    ELSE 0

create_sentiment_metrics_summary(df) ==
    IF df = <<>> THEN EmptyDict
    ELSE LET total_texts == Len(df)
             positive_count == ValueCount(df, "Positive")
             negative_count == ValueCount(df, "Negative")
             neutral_count == ValueCount(df, "Neutral")
         IN  Dict(MetricKeys,
                  [total_texts |-> total_texts,
                   positive_count |-> positive_count,
                   negative_count |-> negative_count,
                   neutral_count |-> neutral_count,
                   positive_pct |-> Pct(positive_count, total_texts),
                   negative_pct |-> Pct(negative_count, total_texts),
                   neutral_pct |-> Pct(neutral_count, total_texts),
                   avg_confidence |-> ColumnMean(df, "confidence"),
                   avg_polarity |-> ColumnMean(df, "polarity"),
                   avg_subjectivity |-> ColumnMean(df, "subjectivity")])

\* metrics['total_texts'], ..., metrics['avg_subjectivity']: a key that is not
\* in the dict is a KeyError
ReadMetrics(metrics) ==
    IF MetricKeys \subseteq metrics.keys THEN Ok(metrics.values) ELSE Raise

\* the Summary sheet of the workbook
export_to_excel(df) == ReadMetrics(create_sentiment_metrics_summary(df))

\* the Executive Summary of the report
create_pdf_report(df) == ReadMetrics(create_sentiment_metrics_summary(df))

\* rows of the result schema, as an analysis builds them
MetricsRows ==
    {SingleRow(t, "", Today, DefaultNumKeywords) :
        t \in {s \in TextInputs : Strip(s) # <<>>}}

\* the data frames handed to the summary and the exports
MetricsFrames == UNION {[1..n -> MetricsRows] : n \in 0..MaxFrameRows}

MetricsInit ==
    /\ text = <<>>
    /\ pc = "ready"
    /\ ret = <<>>
    /\ stopwords_available \in BOOLEAN
    /\ tokenizer_available \in BOOLEAN
    /\ analysis_results \in MetricsFrames
    /\ message = ""

CallMetricsSummary ==
    /\ ret' = [result |-> create_sentiment_metrics_summary(analysis_results)]
    /\ pc' = "create_sentiment_metrics_summary"
    /\ UNCHANGED <<text, stopwords_available, tokenizer_available,
                   analysis_results, message>>

CallExportToExcel ==
    /\ ret' = [result |-> export_to_excel(analysis_results)]
    /\ pc' = "export_to_excel"
    /\ UNCHANGED <<text, stopwords_available, tokenizer_available,
                   analysis_results, message>>

CallCreatePdfReport ==
    /\ ret' = [result |-> create_pdf_report(analysis_results)]
    /\ pc' = "create_pdf_report"
    /\ UNCHANGED <<text, stopwords_available, tokenizer_available,
                   analysis_results, message>>

MetricsNext == CallMetricsSummary \/ CallExportToExcel \/ CallCreatePdfReport

MetricsSpec == MetricsInit /\ [][MetricsNext]_vars

----------------------------------------------------------------------------
(* The results section of the page: sidebar filters, summary, exports *)

\* df[column].unique()
Unique(df, column) == {df[i][column] : i \in DOMAIN df}

\* source_filter when the collection has no source column
None == "None"

\* the selections the two multiselects of the sidebar offer
SentimentFilters(df) == SUBSET Unique(df, "sentiment")

SourceFilters(df) ==
    IF \A i \in DOMAIN df : "source" \in DOMAIN df[i]
    THEN SUBSET Unique(df, "source")
    ELSE {None}

\* mutant: the rows the two selections name
FilteredData_by_selection(df, sentiment_filter, source_filter) ==
    SelectSeq(df, LAMBDA row :
        /\ row.sentiment \in sentiment_filter
        /\ source_filter = None \/ row.source \in source_filter)

\* filtered_data = st.session_state.analysis_results.copy()
FilteredData(df, sentiment_filter, source_filter) == df

\* the selectbox "Choose export format:"
ExportFormats == {"CSV", "JSON", "Excel", "PDF Report"}

\* the button "Download Data" was not pressed
NoExport == ""

\* what the chosen export is given, and whether it is written or raises
Export(export_format, df) ==
    [data |-> df,
     result |-> CASE export_format = "Excel" -> export_to_excel(df)
                  [] export_format = "PDF Report" -> create_pdf_report(df)
                  [] OTHER -> Ok(df)]

\* nothing exported
NoDownload == [data |-> <<>>, result |-> Raise]

\* one run of the page with results to show: the sidebar filters, the summary
\* and the tabs, and the export when "Download Data" was pressed
DisplayAnalysisResults(formats) ==
    /\ analysis_results # <<>>
    /\ \E sentiment_filter \in SentimentFilters(analysis_results),
          source_filter \in SourceFilters(analysis_results),
          export_format \in formats :
        LET filtered_data == FilteredData(analysis_results, sentiment_filter,
                                          source_filter)
            metrics == create_sentiment_metrics_summary(filtered_data)
        IN  /\ ret' = [sentiment_filter |-> sentiment_filter,
                       source_filter |-> source_filter,
                       filtered_data |-> filtered_data,
                       metrics |-> metrics,
                       export_format |-> export_format,
                       download |-> IF export_format = NoExport
                                    THEN NoDownload
                                    ELSE Export(export_format, filtered_data)]
            /\ pc' = IF export_format = NoExport
                     THEN "display_analysis_results"
                     ELSE "download_data"
    /\ UNCHANGED <<text, stopwords_available, tokenizer_available,
                   analysis_results, message>>

display_analysis_results == DisplayAnalysisResults({NoExport})

download_data == DisplayAnalysisResults(ExportFormats)

DisplayInit ==
    /\ text = <<>>
    /\ pc = "main"
    /\ ret = NoCall
    /\ stopwords_available = TRUE
    /\ tokenizer_available = TRUE
    /\ analysis_results \in MetricsFrames
    /\ message = ""

DisplayNext ==
    \/ display_analysis_results
    \/ download_data
    \/ clear_all_results

DisplaySpec == DisplayInit /\ [][DisplayNext]_vars

----------------------------------------------------------------------------
(* Sums of percentages, without rounding *)

\* 2^60 times a float from 2^-8 to below 2^7, or 0.0, as digits that may
\* exceed the base
Fixed(x) ==
    IF x = FloatZero THEN <<0, 0, 0, 0, 0>>
    ELSE [i \in 1..5 |-> x.mant[i] * 2^(x.exp + 8)]

\* 2^60 times x + y + z, as digits
Sum3(x, y, z) ==
    Carried([i \in 1..5 |-> Fixed(x)[i] + Fixed(y)[i] + Fixed(z)[i]])

\* 2^60 times 100, and the numbers from 100 - 2^-40 to below 100 + 2^-40
Hundred == <<25600, 0, 0, 0, 0>>

NearHundred(digits) ==
    \/ digits[1] = 25600 /\ digits[2] = 0 /\ digits[3] = 0 /\ digits[4] < 128
    \/ /\ digits[1] = 25599 /\ digits[2] = Base - 1 /\ digits[3] = Base - 1
       /\ digits[4] >= Base - 128

----------------------------------------------------------------------------
(* What the claims about the functions refer to *)

Range(f) == {f[i] : i \in DOMAIN f}

Min(a, b) == IF a < b THEN a ELSE b

\* the tokens of the lower-cased text under the tokenizer in force
TokensInForce ==
    IF tokenizer_available THEN WordTokenizeFrom(Lower(text), 1, <<>>)
    ELSE Split(Lower(text))

\* the stop-word set in force
StopInForce == IF stopwords_available THEN NltkStopWords ELSE BasicStopWords

\* the tokens that are alphabetic and not stop words, in text order
QualifyingSeq ==
    SelectSeq(TokensInForce, LAMBDA w : IsAlpha(w) /\ w \notin StopInForce)

Qualifying == Range(QualifyingSeq)

\* how often w occurs in q, and where first
Occurrences(w, q) == Cardinality({i \in DOMAIN q : q[i] = w})

FirstPos(w, q) ==
    CHOOSE i \in DOMAIN q : q[i] = w /\ \A j \in 1..(i - 1) : q[j] # w

\* w1 ranks before w2 in q: more frequent, or as frequent and met first
RanksBefore(w1, w2, q) ==
    \/ Occurrences(w1, q) > Occurrences(w2, q)
    \/ Occurrences(w1, q) = Occurrences(w2, q) /\ FirstPos(w1, q) < FirstPos(w2, q)

Analyzed == pc = "analyze_sentiment_textblob"

Extracted == pc = "extract_keywords"

\* C1: the label an analysis returns is Positive iff the polarity it returns
\* is > 0, Negative iff it is < 0 and Neutral iff it is exactly 0.
C1_LabelMatchesPolaritySign ==
    Analyzed =>
        LET r == ret.result.value
        IN  /\ ~ret.result.raised
            /\ r.sentiment \in {"Positive", "Negative", "Neutral"}
            /\ (r.sentiment = "Positive") <=> (r.polarity > 0)
            /\ (r.sentiment = "Negative") <=> (r.polarity < 0)
            /\ (r.sentiment = "Neutral") <=> (r.polarity = 0)

\* a polarity below one hundredth is still labelled Positive: no epsilon band
C1_Witness ==
    /\ Analyzed
    /\ ret.result.value.polarity \in 1..9
    /\ ret.result.value.sentiment = "Positive"

\* C2: the confidence an analysis returns is the absolute value of the
\* polarity it returns and lies in [0, 1].
C2_ConfidenceIsAbsPolarity ==
    Analyzed =>
        LET r == ret.result.value
        IN  /\ r.polarity \in (0 - PolarityScale)..PolarityScale
            /\ r.confidence = (IF r.polarity < 0 THEN 0 - r.polarity ELSE r.polarity)
            /\ r.confidence \in 0..PolarityScale

C2_Witness ==
    /\ Analyzed
    /\ ret.result.value.polarity < 0
    /\ ret.result.value.confidence > 0

\* C3: for positive k the keywords are distinct, as many as min(k, number of
\* distinct alphabetic non-stop-word tokens), and none of them is a stop word
\* or has a non-alphabetic character.
C3_KeywordCountAndFilter ==
    (Extracted /\ ret.num_keywords > 0) =>
        LET kw == ret.result.value
        IN  /\ ~ret.result.raised
            /\ Len(kw) = Min(ret.num_keywords, Cardinality(Qualifying))
            /\ \A i, j \in DOMAIN kw : i # j => kw[i] # kw[j]
            /\ \A i \in DOMAIN kw :
                  /\ kw[i] \notin StopInForce
                  /\ kw[i] # <<>>
                  /\ \A n \in DOMAIN kw[i] : IsAlphaChar(kw[i][n])

\* k cuts the result short of the qualifying tokens, and the text also holds
\* a token that is not alphabetic
C3_Witness ==
    /\ Extracted
    /\ ret.num_keywords > 0
    /\ Len(ret.result.value) = ret.num_keywords
    /\ Cardinality(Qualifying) > ret.num_keywords
    /\ \E i \in DOMAIN TokensInForce : ~IsAlpha(TokensInForce[i])

\* C4: keywords come in descending order of frequency among the filtered
\* tokens, first-encountered first among equals, and every keyword left out
\* ranks after every keyword returned.
C4_FrequencyOrder ==
    Extracted =>
        LET kw == ret.result.value
            q == QualifyingSeq
        IN  /\ \A i, j \in DOMAIN kw : i < j => RanksBefore(kw[i], kw[j], q)
            /\ \A w \in Range(q) \ Range(kw) :
                  \A i \in DOMAIN kw : RanksBefore(kw[i], w, q)
            /\ (ret.num_keywords > 0 /\ q # <<>>) =>
                  \A w \in Range(q) : Occurrences(kw[1], q) >= Occurrences(w, q)

\* the more frequent word comes first although it is met later in the text
C4_Witness ==
    /\ Extracted
    /\ Len(ret.result.value) = 2
    /\ Occurrences(ret.result.value[1], QualifyingSeq) >
           Occurrences(ret.result.value[2], QualifyingSeq)
    /\ FirstPos(ret.result.value[1], QualifyingSeq) >
           FirstPos(ret.result.value[2], QualifyingSeq)

\* C5: on the empty string, and whenever no token is both alphabetic and not
\* a stop word, the result is the empty sequence, for every k.
C5_NoQualifyingTokenNoKeyword ==
    (Extracted /\ (text = <<>> \/ Qualifying = {})) =>
        /\ ~ret.result.raised
        /\ ret.result.value = <<>>

\* punctuation and stop words only, positive k
C5_Witness ==
    /\ Extracted
    /\ ret.num_keywords > 0
    /\ text # <<>>
    /\ \E i \in DOMAIN text : text[i] = "!"
    /\ \E i \in DOMAIN text : text[i] = "A"
    /\ Qualifying = {}
    /\ ret.result.value = <<>>

\* C8: without the stop-word resource the built-in set filters, without the
\* tokenizer resource the tokens are the whitespace-separated pieces of the
\* lower-cased text, and in each of the four combinations the call returns.
C8_FallbackResources ==
    Extracted =>
        LET kw == ret.result.value
            pieces == Split(Lower(text))
        IN  /\ ~ret.result.raised
            /\ ~stopwords_available =>
                  /\ \A i \in DOMAIN kw : kw[i] \notin BasicStopWords
                  /\ ret.num_keywords > 0 =>
                        Len(kw) = Min(ret.num_keywords,
                                      Cardinality({w \in Range(TokensInForce) :
                                          IsAlpha(w) /\ w \notin BasicStopWords}))
            /\ ~tokenizer_available =>
                  /\ \A i \in DOMAIN kw : kw[i] \in Range(pieces)
                  /\ ret.num_keywords > 0 =>
                        Len(kw) = Min(ret.num_keywords,
                                      Cardinality({w \in Range(pieces) :
                                          IsAlpha(w) /\ w \notin StopInForce}))

\* both resources missing: a word only the corpus lists as a stop word is a
\* keyword, and a piece with punctuation attached is not split into one
C8_Witness ==
    /\ Extracted
    /\ ~stopwords_available
    /\ ~tokenizer_available
    /\ ret.result.value = <<<<"o">>>>
    /\ \E i \in DOMAIN text : text[i] = "!"
    /\ \E i \in DOMAIN text : text[i] = "b"

----------------------------------------------------------------------------
(* What the claims about the session refer to *)

AnalysisHandlers ==
    {"single_text_analysis", "batch_text_analysis", "file_upload_analysis",
     "single_file_upload"}

UploadHandlers == {"file_upload_analysis", "single_file_upload"}

IsPrefix(old, new) ==
    /\ Len(old) <= Len(new)
    /\ \A i \in 1..Len(old) : new[i] = old[i]

\* the last n rows of the collection
LastRows(n) ==
    SubSeq(analysis_results, Len(analysis_results) - n + 1, Len(analysis_results))

\* C6: batch_analyze_sentiment returns one result per input record, and the
\* text of result i is the text of record i: no reordering, no deduplication.
C6_BatchKeepsInputOrder ==
    ret.called =>
        /\ ~ret.result.raised
        /\ Len(ret.result.value) = Len(ret.records)
        /\ \A i \in DOMAIN ret.records :
              ret.result.value[i].text = ret.records[i].text

\* two records with the same text give two results
C6_Witness ==
    /\ ret.called
    /\ Len(ret.records) = 2
    /\ ret.records[1].text = ret.records[2].text
    /\ Len(ret.result.value) = 2

C9_AnalysesAppendOnly ==
    [][pc' \in AnalysisHandlers => IsPrefix(analysis_results, analysis_results')]_vars

\* a single-text analysis added its row behind the row of an upload
C9_Witness ==
    /\ pc = "single_text_analysis"
    /\ message = "success"
    /\ Len(analysis_results) = 2
    /\ analysis_results[1].source = "n.txt"
    /\ analysis_results[2].source = "Manual Input"

\* C10: rows leave the collection only by Clear All Results, which leaves it
\* empty; no step removes some rows and keeps others.
C10_OnlyClearRemovesAll ==
    [][/\ pc' = "clear_all_results" => analysis_results' = <<>>
       /\ ~IsPrefix(analysis_results, analysis_results') =>
             (pc' = "clear_all_results" /\ analysis_results' = <<>>)]_vars

\* the collection is empty after Clear All Results
C10_Witness ==
    /\ pc = "clear_all_results"
    /\ analysis_results = <<>>

\* C16: extract_keywords called with k <= 0 returns the empty sequence for
\* every text and raises no error.
C16_NonPositiveKGivesNoKeyword ==
    (Extracted /\ ret.num_keywords <= 0) =>
        /\ ~ret.result.raised
        /\ ret.result.value = <<>>

\* a negative k on a text with two qualifying words
C16_Witness ==
    /\ Extracted
    /\ ret.num_keywords < 0
    /\ Cardinality(Qualifying) >= 2
    /\ ~ret.result.raised
    /\ ret.result.value = <<>>

Explained == pc = "get_sentiment_explanation"

\* C17: the template of an explanation is the Positive one for the label
\* 'Positive', the Negative one for 'Negative' and the Neutral one for every
\* other label, whatever the polarity; the sentence holds the text given and
\* the polarity to the nearest hundredth, with its sign.
C17_TemplateFollowsLabel ==
    Explained =>
        /\ ret.result.template =
              (CASE ret.sentiment = "Positive" -> "Positive"
                 [] ret.sentiment = "Negative" -> "Negative"
                 [] OTHER -> "Neutral")
        /\ ret.result.text = text
        /\ ret.result.score.negative = (ret.polarity < 0)
        /\ 10 * ret.result.score.hundredths - Abs(ret.polarity) \in (0 - 5)..5

\* a label that is none of the three, with a positive polarity: the Neutral
\* template
C17_Witness ==
    /\ Explained
    /\ ret.sentiment = "Mixed"
    /\ ret.polarity > 0
    /\ ret.result.template = "Neutral"
    /\ text # <<>>

BatchHandlers ==
    {"batch_text_analysis", "file_upload_analysis", "single_file_upload"}

\* the rows behind the first n of the collection
RowsAfter(collection, n) == SubSeq(collection, n + 1, Len(collection))

\* C18: a batch-style analysis extends the collection by one explained row
\* for every record of the batch, in one step, when the whole batch has been
\* analysed; when the analysis of a record fails, or no batch is analysed, the
\* collection is left as it was: a part of a batch is never stored.
C18_BatchAllOrNothing ==
    [][pc' \in BatchHandlers =>
          IF ret'.called /\ ~ret'.result.raised
          THEN /\ IsPrefix(analysis_results, analysis_results')
               /\ LET new == RowsAfter(analysis_results', Len(analysis_results))
                  IN  /\ Len(new) = Len(ret'.records)
                      /\ \A i \in DOMAIN new :
                            /\ new[i].text = ret'.records[i].text
                            /\ "sentiment" \in DOMAIN new[i]
                            /\ "explanation" \in DOMAIN new[i]
          ELSE /\ analysis_results' = analysis_results
               /\ (ret'.called /\ ret'.records # <<>>) => message' = "error"]_vars

\* the second record of a batch of two failed: nothing of the batch is stored
C18_Witness ==
    /\ pc \in BatchHandlers
    /\ ret.called
    /\ ret.result.raised
    /\ Len(ret.records) = 2
    /\ Len(ret.result.value) = 1
    /\ analysis_results = <<>>
    /\ message = "error"

\* empty, or whitespace only
IsBlank(s) == \A i \in DOMAIN s : IsSpace(s[i])

\* C19: Analyze Text on an empty or whitespace-only text reports an error and
\* leaves the collection as it was; on any other text it appends exactly one
\* row, of that text; so no row made from the text box has a blank text.
C19_BlankTextRejected ==
    /\ [](\A i \in DOMAIN analysis_results :
             analysis_results[i].source = "Manual Input" =>
                ~IsBlank(analysis_results[i].text))
    /\ [][pc' = "single_text_analysis" =>
             IF IsBlank(ret'.frame[1].text)
             THEN /\ message' = "error"
                  /\ analysis_results' = analysis_results
             ELSE /\ message' = "success"
                  /\ Len(analysis_results') = Len(analysis_results) + 1
                  /\ IsPrefix(analysis_results, analysis_results')
                  /\ analysis_results'[Len(analysis_results')].text =
                        ret'.frame[1].text]_vars

\* a whitespace-only text was refused and the row stored before is still there
C19_Witness ==
    /\ pc = "single_text_analysis"
    /\ message = "error"
    /\ ret.frame[1].text = <<" ">>
    /\ Len(analysis_results) = 1

\* the positions of the characters of s that are not whitespace
Inked(s) == {i \in DOMAIN s : ~IsSpace(s[i])}

Least(S) == CHOOSE x \in S : \A y \in S : x <= y

Greatest(S) == CHOOSE x \in S : \A y \in S : x >= y

\* a line that is not blank, from its first to its last such character
Trimmed(line) == SubSeq(line, Least(Inked(line)), Greatest(Inked(line)))

\* the lines of the batch box that are not blank, trimmed, in their order
NonBlankLines(s) ==
    LET lines == SplitLinesFrom(s, 1, <<>>)
        kept == SelectSeq(lines, LAMBDA line : ~IsBlank(line))
    IN  [j \in 1..Len(kept) |-> Trimmed(kept[j])]

\* C20: Analyze Batch appends one row per non-blank line of the box, in line
\* order, with the trimmed line as its text, and with source 'Batch Input j'
\* for the j-th non-blank line when no default source is given; a box that is
\* blank altogether appends nothing and reports an error.
C20_BatchRowsPerNonBlankLine ==
    [][pc' = "batch_text_analysis" =>
          IF IsBlank(ret'.frame[1].text)
          THEN /\ message' = "error"
               /\ analysis_results' = analysis_results
          ELSE LET expected == NonBlankLines(ret'.frame[1].text)
                   new == RowsAfter(analysis_results', Len(analysis_results))
               IN  /\ message' = "success"
                   /\ IsPrefix(analysis_results, analysis_results')
                   /\ Len(new) = Len(expected)
                   /\ \A j \in DOMAIN new :
                         /\ new[j].text = expected[j]
                         /\ ret'.frame[1].source = "" =>
                               new[j].source = BatchInputLabel(j)]_vars

\* four lines, two of them blank, no default source: two rows, the second
\* labelled 'Batch Input 2'
C20_Witness ==
    /\ pc = "batch_text_analysis"
    /\ message = "success"
    /\ ret.frame[1].text = <<" ", "b", NL, NL, "c", " ", "o", NL>>
    /\ ret.frame[1].source = ""
    /\ Len(analysis_results) = 2
    /\ analysis_results[1].text = <<"b">>
    /\ analysis_results[1].source = "Batch Input 1"
    /\ analysis_results[2].text = <<"c", " ", "o">>
    /\ analysis_results[2].source = "Batch Input 2"

\* the record has a value under key: the column is there and the cell is filled
HasLabel(raw, key) == key \in DOMAIN raw /\ raw[key] # NaNLabel

\* the columns a single CSV upload offers for source and date
OfferedColumns(frame) ==
    {"None"} \cup (IF frame = <<>> THEN {} ELSE DOMAIN frame[1] \ {"text"})

\* the value picked for a record of a single CSV upload, if there is one
Picked(raw, col, default) ==
    IF col # "None" /\ HasLabel(raw, col) THEN raw[col] ELSE default

\* C12: a batch never rejects a record for a missing source or date; a record
\* with no source gets the label of its position (batch text), of its file
\* (upload of files) or "File Upload" (single CSV), a record with no date gets
\* the current date, and a source or date that is supplied is passed through.
C12_MissingSourceAndDateDefaulted ==
    ret.called =>
        /\ ~ret.result.raised
        /\ Len(ret.result.value) = Len(ret.records)
        /\ LET rows == ret.result.value
           IN  CASE pc = "batch_text_analysis" ->
                      LET widgets == ret.frame[1]
                      IN  \A i \in DOMAIN rows :
                            /\ rows[i].source =
                                  (IF widgets.source # "" THEN widgets.source
                                   ELSE BatchInputLabel(i))
                            /\ rows[i].date = widgets.date
                 [] pc = "file_upload_analysis" ->
                      \A i \in DOMAIN rows :
                            /\ rows[i].source =
                                  (IF HasLabel(ret.frame[i], "source")
                                   THEN ret.frame[i].source
                                   ELSE ret.frame[i].file_source)
                            /\ rows[i].date =
                                  (IF HasLabel(ret.frame[i], "date")
                                   THEN ret.frame[i].date ELSE Today)
                 [] pc = "single_file_upload" ->
                      \E source_col \in OfferedColumns(ret.frame),
                         date_col \in OfferedColumns(ret.frame) :
                         \A i \in DOMAIN rows :
                            /\ rows[i].source =
                                  Picked(ret.frame[i], source_col, "File Upload")
                            /\ rows[i].date =
                                  Picked(ret.frame[i], date_col, Today)

\* the fields of the tabular schema
NineFields ==
    {"text", "sentiment", "confidence", "polarity", "subjectivity",
     "keywords", "source", "date", "explanation"}

\* C13: every row of the session collection, whichever analysis created it,
\* carries the nine fields of the schema and no other.
C13_RowsCarryNineFields ==
    \A i \in DOMAIN analysis_results : DOMAIN analysis_results[i] = NineFields

\* a row of a batch text followed by a row of a single CSV upload
C13_Witness ==
    /\ pc = "single_file_upload"
    /\ message = "success"
    /\ Len(analysis_results) = 2
    /\ analysis_results[1].source = "Batch Input 1"
    /\ analysis_results[2].source = "File Upload"

\* what analyze_sentiment_textblob returned for a row
Scores(row) == <<row.sentiment, row.confidence, row.polarity, row.subjectivity>>

C15_KeywordCountBounded ==
    /\ \A i \in DOMAIN analysis_results :
          Len(analysis_results[i].keywords) <= 10
    /\ (ret.called /\ ~ret.result.raised) =>
          /\ \A i \in DOMAIN ret.result.value :
                Len(ret.result.value[i].keywords) <= 5
          /\ \A i \in DOMAIN ret.result.value :
                Len(LastRows(Len(ret.result.value))[i].keywords) <= 5
    /\ (pc = "single_text_analysis" /\ message = "success") =>
          /\ ret.frame[1].num_keywords \in 3..10
          /\ Len(analysis_results[Len(analysis_results)].keywords)
                <= ret.frame[1].num_keywords

\* a text of eleven words: its batch row has 5 keywords, and its single-text
\* row with the slider at 10 has 10
C15_Witness ==
    /\ pc = "single_text_analysis"
    /\ message = "success"
    /\ Len(analysis_results) = 2
    /\ analysis_results[1].source \in {"Batch Input 1", "l.txt", "File Upload"}
    /\ analysis_results[1].text = LongText
    /\ Len(analysis_results[1].keywords) = 5
    /\ analysis_results[2].text = LongText
    /\ ret.frame[1].num_keywords = 10
    /\ Len(analysis_results[2].keywords) = 10

\* the file is read and taken: a CSV with a text column, or a text file
Accepted(f) ==
    /\ f.reads
    /\ \/ EndsWith(f.name, ".csv") /\ "text" \in f.columns
       \/ EndsWith(f.name, ".txt")

\* the texts a file that is taken holds, each with the name of the file
RowsOf(f) ==
    IF EndsWith(f.name, ".csv")
    THEN [i \in 1..Len(f.rows) |->
             [text |-> f.rows[i].text, file_source |-> f.name]]
    ELSE LET lines == NonBlankLines(f.content)
         IN  [j \in 1..Len(lines) |-> [text |-> lines[j], file_source |-> f.name]]

\* the rows of the files that are taken, in upload order
RECURSIVE ExpectedRows(_)
ExpectedRows(files) ==
    IF files = <<>> THEN <<>>
    ELSE (IF Accepted(Head(files)) THEN RowsOf(Head(files)) ELSE <<>>)
         \o ExpectedRows(Tail(files))

\* C21: batch_process_files returns the rows of the files it can take (read
\* without error, a CSV with a text column or a text file), in upload order,
\* each with its file name in file_source, whatever the other files are; its
\* result is empty exactly when these are no rows, and then Analyze All
\* Files reports an error and leaves the collection as it was.
C21_FilesIsolated ==
    /\ [](pc = "batch_process_files" =>
             LET df == ret.result
                 expected == ExpectedRows(text)
             IN  /\ Len(df.rows) = Len(expected)
                 /\ \A i \in DOMAIN expected :
                       /\ df.rows[i].text = expected[i].text
                       /\ df.rows[i].file_source = expected[i].file_source
                 /\ IsEmptyFrame(df) <=> expected = <<>>)
    /\ [][pc' = "file_upload_analysis" =>
             IF ExpectedRows(text) = <<>>
             THEN /\ message' = "error"
                  /\ analysis_results' = analysis_results
             ELSE /\ message' = "success"
                  /\ Len(analysis_results') =
                        Len(analysis_results) + Len(ExpectedRows(text))]_vars

\* a file that cannot be read, uploaded before a text file: the row of the
\* text file is returned
C21_Witness ==
    /\ pc = "batch_process_files"
    /\ Len(text) = 2
    /\ text[1].name = "bad.csv"
    /\ text[2].name = "n.txt"
    /\ Len(ret.result.rows) = 1
    /\ ret.result.rows[1].file_source = "n.txt"

----------------------------------------------------------------------------
(* Claims about the summary metrics *)

SummaryCalled == pc = "create_sentiment_metrics_summary"

Exported == pc \in {"export_to_excel", "create_pdf_report"}

\* the page showed its results section, with or without a download
Displayed == pc \in {"display_analysis_results", "download_data"}

\* the sum of the three percentages of a summary
PctSum(metrics) ==
    Sum3(metrics.values.positive_pct, metrics.values.negative_pct,
         metrics.values.neutral_pct)

\* the counts of a summary of the collection add up to its number of rows
CountsAddUp(metrics) ==
    /\ metrics.keys = MetricKeys
    /\ metrics.values.total_texts = Len(analysis_results)
    /\ metrics.values.positive_count + metrics.values.negative_count
           + metrics.values.neutral_count = metrics.values.total_texts

\* C22 as stated: whenever the page shows its results the collection is not
\* empty, total_texts is its number of rows, the three counts add up to
\* total_texts and the three percentages add up to 100
C22_PercentagesSumTo100 ==
    Displayed =>
        /\ analysis_results # <<>>
        /\ CountsAddUp(ret.metrics)
        /\ PctSum(ret.metrics) = Hundred

\* C22 amended: whenever the page shows its results the collection is not
\* empty, total_texts is its number of rows, the three counts add up to
\* total_texts, and the three percentages, each rounded to a float, add up to
\* a number less than 2^-40 away from 100
C22_CountsSumToTotal ==
    Displayed =>
        /\ analysis_results # <<>>
        /\ CountsAddUp(ret.metrics)
        /\ NearHundred(PctSum(ret.metrics))

\* three rows, one of each label: the percentages do not add up to 100
C22_Witness ==
    /\ Displayed
    /\ Len(analysis_results) = 3
    /\ ret.metrics.values.positive_count = 1
    /\ ret.metrics.values.negative_count = 1
    /\ ret.metrics.values.neutral_count = 1
    /\ PctSum(ret.metrics) # Hundred
    /\ NearHundred(PctSum(ret.metrics))

IsZeroMetric(v) == IF v \in Int THEN v = 0 ELSE v = FloatZero

\* C11: for an empty input the summary contains every metric (total, three
\* counts, three percentages, three averages) with value zero, and
\* export_to_excel and create_pdf_report, which read those keys, do not fail.
C11_EmptySummaryIsZeroValued ==
    analysis_results = <<>> =>
        /\ SummaryCalled =>
              /\ ret.result.keys = MetricKeys
              /\ \A key \in MetricKeys : IsZeroMetric(ret.result.values[key])
        /\ Exported => ~ret.result.raised
====
